---- MODULE Spec2Model ----
(***************************************************************************)
(* Model of the panhinda CMS library as it stands in the repository:       *)
(*   - CMSProvider   (Readme.md, "The React Library Logic"): the session    *)
(*     state `user`, the edit-mode state `isEditMode`, the mount effect     *)
(*     (getSession + onAuthStateChange), and the rendered controls;         *)
(*   - Editable      (panhinda/src/Editable.tsx): the content region;       *)
(*   - site_content  (Readme.md, table and row-level-security policies):    *)
(*     the remote table the regions are keyed against.                      *)
(* The auth collaborator (Supabase auth) is the environment: it holds the   *)
(* current session, answers the one-shot session query and emits            *)
(* login/logout notifications to the subscriber.                            *)
(***************************************************************************)
EXTENDS Naturals, Sequences, FiniteSets

\* Bound on the notifications emitted by the collaborator and not yet delivered.
MaxQueue == 2

\* `session?.user ?? null`: the absent Identity.
null == "null"

\* The users the auth collaborator can sign in.
Identities == {"u1", "u2"}

\* What a session query or a notification carries: a user or null.
Sessions == Identities \cup {null}

\* Content ids used in the Readme's examples.
Ids == {"home-title", "hero-title"}

\* Content values: the static children of the examples and an edited value.
Contents == {"My Static Title", "New Title"}

\* A content id with no row in site_content.
NoRow == "NoRow"

\* DOM attributes that make a region editable in place.
EditingAttrs == {"contentEditable", "onBlur", "onInput"}

VARIABLES
    user,           \* CMSProvider: useState(null)
    isEditMode,     \* CMSProvider: useState(false)
    mounted,        \* the provider is mounted and its subscription is alive
    authSession,    \* auth collaborator: the current session's user, or null
    queryState,     \* getSession(): "pending" | "answered" | "done"
    queryResult,    \* the session carried by the answer in flight
    notifications,  \* onAuthStateChange events emitted and not yet delivered
    lastNotified,   \* history: what the last delivered notification carried
    lastToggle,     \* history: outcome of the last toggle request
    dom,            \* the elements rendered by the mounted Editable regions
    site_content    \* remote table: id -> content, NoRow when there is no row

vars == <<user, isEditMode, mounted, authSession, queryState, queryResult,
          notifications, lastNotified, lastToggle, dom, site_content>>

provider == <<user, isEditMode>>
collaborator == <<authSession, queryState, queryResult, notifications>>

----------------------------------------------------------------------------
(* Editable.tsx *)

\* Variant of Editable that makes the region editable whenever the edit-mode
\* flag is set, without looking at the Identity.
EditableGatedOnMode(id, children) ==
    [tag |-> "div",
     attrs |-> {<<"data-cms-id", id>>} \cup
               (IF isEditMode THEN {<<"contentEditable", "true">>} ELSE {}),
     children |-> children]

\* <div data-cms-id={id}>{children}</div>
Editable(id, children) ==
    [tag |-> "div", attrs |-> {<<"data-cms-id", id>>}, children |-> children]

\* The id a rendered region is keyed by.
CmsId(el) == (CHOOSE a \in el.attrs : a[1] = "data-cms-id")[2]

\* The region offers in-place editing.
HasEditAffordance(el) == \E a \in el.attrs : a[1] \in EditingAttrs

----------------------------------------------------------------------------
(* CMSProvider *)

\* {!user && <AdminLoginButton />} {user && <EditToggle ... />}
Controls == IF user = null THEN {"AdminLoginButton"} ELSE {"EditToggle"}

Init ==
    /\ user = null
    /\ isEditMode = FALSE
    /\ mounted = TRUE
    /\ authSession \in Sessions
    /\ queryState = "pending"
    /\ queryResult = null
    /\ notifications = <<>>
    /\ lastNotified = "none"
    /\ lastToggle = "none"
    /\ dom = {}
    /\ site_content \in [Ids -> Contents \cup {NoRow}]

\* The collaborator reads the session for getSession(); a failed query
\* yields no session.
AnswerQuery ==
    /\ queryState = "pending"
    /\ \E r \in {authSession, null} : queryResult' = r
    /\ queryState' = "answered"
    /\ UNCHANGED <<provider, mounted, authSession, notifications,
                   lastNotified, lastToggle, dom, site_content>>

\* .then(({ data: { session } }) => { setUser(session?.user ?? null) })
\* A state update on an unmounted component is dropped.
ResolveQuery ==
    /\ queryState = "answered"
    /\ queryState' = "done"
    /\ user' = IF mounted THEN queryResult ELSE user
    /\ UNCHANGED <<isEditMode, mounted, authSession, queryResult, notifications,
                   lastNotified, lastToggle, dom, site_content>>

\* The collaborator signs a user in (or refreshes the session) and notifies
\* the subscriber, if there is one.
SignIn(u) ==
    /\ Len(notifications) < MaxQueue
    /\ authSession' = u
    /\ notifications' = IF mounted THEN Append(notifications, u) ELSE notifications
    /\ UNCHANGED <<provider, mounted, queryState, queryResult,
                   lastNotified, lastToggle, dom, site_content>>

\* The collaborator signs the user out and notifies the subscriber.
SignOut ==
    /\ authSession # null
    /\ Len(notifications) < MaxQueue
    /\ authSession' = null
    /\ notifications' = IF mounted THEN Append(notifications, null) ELSE notifications
    /\ UNCHANGED <<provider, mounted, queryState, queryResult,
                   lastNotified, lastToggle, dom, site_content>>

\* onAuthStateChange((_event, session) => { setUser(session?.user ?? null) })
OnAuthStateChange ==
    /\ mounted
    /\ notifications # <<>>
    /\ user' = Head(notifications)
    /\ notifications' = Tail(notifications)
    /\ lastNotified' = Head(notifications)
    /\ UNCHANGED <<isEditMode, mounted, authSession, queryState, queryResult,
                   lastToggle, dom, site_content>>

\* Variant of Toggle whose control is rendered whether or not user is set.
ToggleUngated ==
    /\ mounted
    /\ isEditMode' = ~isEditMode
    /\ lastToggle' = "applied"
    /\ UNCHANGED <<user, mounted, collaborator, lastNotified, dom, site_content>>

\* <EditToggle onToggle={() => setIsEditMode(!isEditMode)} />, rendered
\* only when user is set.
Toggle ==
    /\ mounted
    /\ "EditToggle" \in Controls
    /\ isEditMode' = ~isEditMode
    /\ lastToggle' = "applied"
    /\ UNCHANGED <<user, mounted, collaborator, lastNotified, dom, site_content>>

\* A toggle request while no EditToggle is rendered: there is nothing to
\* invoke, no handler runs and nothing is reported.
ToggleUnavailable ==
    /\ mounted
    /\ "EditToggle" \notin Controls
    /\ lastToggle' = "ignored"
    /\ UNCHANGED <<provider, mounted, collaborator, lastNotified, dom, site_content>>

\* return () => subscription.unsubscribe(): the provider and the regions
\* under it leave the page; undelivered notifications are never delivered.
Unmount ==
    /\ mounted
    /\ mounted' = FALSE
    /\ dom' = {}
    /\ UNCHANGED <<provider, collaborator, lastNotified, lastToggle, site_content>>

\* An <Editable id={id}>{children}</Editable> region is rendered (mounted, or
\* rendered again with new children) under the provider.
RenderEditable(id, children) ==
    /\ mounted
    /\ dom' = {el \in dom : CmsId(el) # id} \cup {Editable(id, children)}
    /\ UNCHANGED <<provider, mounted, collaborator, lastNotified, lastToggle,
                   site_content>>

----------------------------------------------------------------------------
(* site_content and its policies *)

\* CREATE POLICY "Admin Update Access" ON site_content FOR UPDATE
\* TO authenticated: an UPDATE changes an existing row, for a signed-in
\* client only.
UpdateContent(id, v) ==
    /\ authSession # null
    /\ site_content[id] # NoRow
    /\ site_content' = [site_content EXCEPT ![id] = v]
    /\ UNCHANGED <<provider, mounted, collaborator, lastNotified, lastToggle, dom>>

----------------------------------------------------------------------------

Next ==
    \/ AnswerQuery
    \/ ResolveQuery
    \/ \E u \in Identities : SignIn(u)
    \/ SignOut
    \/ OnAuthStateChange
    \/ Toggle
    \/ ToggleUnavailable
    \/ Unmount
    \/ \E id \in Ids, children \in Contents : RenderEditable(id, children)
    \/ \E id \in Ids, v \in Contents : UpdateContent(id, v)

Spec == Init /\ [][Next]_vars

----------------------------------------------------------------------------
(* Properties *)

\* C1: in every reachable state, edit mode on implies that an Identity is
\* present (isEditMode => user is not null).
C1_EditModeImpliesIdentity == isEditMode => user # null

\* C2: a logout notification processed while the mode is editing leaves the
\* mode viewing in the state right after the notification step.
C2_LogoutForcesViewing ==
    [][(OnAuthStateChange /\ isEditMode /\ user' = null) => ~isEditMode']_vars

C7_NoAffordanceWithoutEditing ==
    \A el \in dom : HasEditAffordance(el) => (isEditMode /\ user # null)

\* C7 witness: Identity is absent, the edit-mode flag is still set, and the
\* rendered regions are plain content.
C7_Witness ==
    /\ user = null
    /\ isEditMode
    /\ dom # {}
    /\ \A el \in dom : ~HasEditAffordance(el) /\ el.attrs = {<<"data-cms-id", CmsId(el)>>}

C10_IdentityIsLastNotified == lastNotified # "none" => user = lastNotified

====
